---- MODULE Spec2Model ----
(***************************************************************************)
(* route-genius: the memoized backward-recursion solver dp_solve of        *)
(* src/src/lib/dp-solver.ts, as a state machine.                           *)
(*                                                                         *)
(* Numbers.  The code computes in IEEE doubles; the model computes in      *)
(* exact integers on a grid:                                               *)
(*   - a location is a signed offset along the depot's meridian, in grid   *)
(*     units of 1/UnitsPerKm km (on one meridian the Haversine formula is  *)
(*     R * |delta latitude|, so the distance is the absolute difference);  *)
(*   - a time (milliseconds in the code) is in ticks, TicksPerMinute to    *)
(*     the minute; every duration the code gives in minutes is in ticks;   *)
(*   - a cost is in units of 1/(UnitsPerKm * TicksPerMinute).              *)
(* Infinity, -Infinity and NaN are three integers outside the finite range *)
(* and the arithmetic operators below treat them as IEEE does.  Rounding   *)
(* errors of doubles and performance.now() (computationTime) are left out. *)
(***************************************************************************)
EXTENDS Integers, Sequences, FiniteSets, TLC

VARIABLES
  pending,            \* inputs the caller will still pass to dp_solve, in order
  history,            \* one [orders, params, result] per completed call
  pc,                 \* "idle" | "search" | "extract"
  orders, params,     \* the arguments of the running call
  memo,               \* Map<string, DPResult> in insertion order
  statesEvaluated, memoHits, maxDepth, recursionTrace,
  stack,              \* the frames of dp_recursive, innermost last
  ret,                \* the DPResult the last finished dp_recursive call returned
  sequence, keyDecisions, currentLoc, currentTime, remainingIds,
  totalDistance, totalTravelTime, totalDelayPenalty, totalCost,
  totalDistanceCost, totalTimeCost, totalDelayCost, stepNumber,
  broke,              \* the extraction loop was left by its break
  result,             \* the OptimizationResult last returned, or NoResult
  pageOrders,         \* the page's `orders` state: the list parseCSV returned
  pageParams,         \* the page's `params` state
  pageError,          \* the page's `error` state
  fileName,           \* the page's `fileName` state
  isOptimizing,       \* the page's `isOptimizing` state
  events              \* what the user of the page is still going to do

searchVars == <<memo, statesEvaluated, memoHits, maxDepth, recursionTrace, stack, ret>>
extractVars == <<sequence, keyDecisions, currentLoc, currentTime, remainingIds,
                 totalDistance, totalTravelTime, totalDelayPenalty, totalCost,
                 totalDistanceCost, totalTimeCost, totalDelayCost, stepNumber, broke>>
pageVars == <<pageOrders, pageParams, pageError, fileName, isOptimizing, events>>
vars == <<pending, history, pc, orders, params, searchVars, extractVars, result,
          pageVars>>

----------------------------------------------------------------------------
(* Units and IEEE values *)

TicksPerMinute == 4
UnitsPerKm == 8
Infinity == 1000000000
NegInfinity == 0 - Infinity
NaN == Infinity + 1

IsNaN(x) == x = NaN
IsFinite(x) == x > NegInfinity /\ x < Infinity

Plus(x, y) ==
  IF IsNaN(x) \/ IsNaN(y) THEN NaN
  ELSE IF IsFinite(x) /\ IsFinite(y) THEN x + y
  ELSE IF IsFinite(x) THEN y
  ELSE IF IsFinite(y) THEN x
  ELSE IF x = y THEN x ELSE NaN

Minus(x, y) ==
  IF IsNaN(y) THEN NaN
  ELSE IF IsFinite(y) THEN Plus(x, 0 - y)
  ELSE Plus(x, IF y = Infinity THEN NegInfinity ELSE Infinity)

Times(x, y) ==
  IF IsNaN(x) \/ IsNaN(y) THEN NaN
  ELSE IF IsFinite(x) /\ IsFinite(y) THEN x * y
  ELSE IF x = 0 \/ y = 0 THEN NaN
  ELSE IF (x > 0) = (y > 0) THEN Infinity ELSE NegInfinity

\* x < y of two doubles: false when either is NaN
LessThan(x, y) == ~IsNaN(x) /\ ~IsNaN(y) /\ x < y

\* x === y of two doubles: NaN equals nothing
NumEq(x, y) == ~IsNaN(x) /\ ~IsNaN(y) /\ x = y

\* Math.max(0, x)
MathMax0(x) == IF IsNaN(x) THEN NaN ELSE IF x > 0 THEN x ELSE 0

\* Math.round(t / 60000): the nearest whole minute, halves upwards
MathRoundMinutes(t) ==
  IF IsFinite(t) THEN (2 * t + TicksPerMinute) \div (2 * TicksPerMinute) ELSE t

\* new Date(ms).getTime(): an invalid Date reads NaN
DateGetTime(ms) == IF IsFinite(ms) THEN ms ELSE NaN

----------------------------------------------------------------------------
(* Values of the data model *)

Null == "null"
NoResult == [none |-> TRUE]
DEPOT_LOCATION == 0

\* string order of the order ids (Array.prototype.sort without a comparator)
IdOrder == <<"", "A", "A,B", "B", "B,C", "C", "D", "E">>

SeqToSet(s) == {s[i] : i \in 1..Len(s)}

\* Array.prototype.join(','): the strings of a list with commas between them
RECURSIVE Join(_)
Join(strs) ==
  IF strs = <<>> THEN ""
  ELSE IF Len(strs) = 1 THEN strs[1]
  ELSE strs[1] \o "," \o Join(Tail(strs))

\* the comma-free pieces of an id
IdPieces(id) ==
  IF id = "A,B" THEN <<"A", "B">>
  ELSE IF id = "B,C" THEN <<"B", "C">>
  ELSE <<id>>

RECURSIVE Pieces(_)
Pieces(ids) == IF ids = <<>> THEN <<>> ELSE IdPieces(Head(ids)) \o Pieces(Tail(ids))

\* the sorted id lists a key can be made of
SortedLists ==
  {SelectSeq(IdOrder, LAMBDA id : id \in S) : S \in SUBSET SeqToSet(IdOrder)}

\* String.prototype.split(','): the comma-free pieces of a string that join
\* made of a sorted id list (the empty string splits into one empty piece)
Split(str) ==
  LET l == CHOOSE l \in SortedLists : Join(l) = str
  IN IF l = <<>> THEN <<"">> ELSE Pieces(l)

\* Array.from(set).sort(): the ids in string order
SortedIds(ids) == SelectSeq(IdOrder, LAMBDA id : id \in SeqToSet(ids))

\* new Set(s) minus one id keeps the insertion order of the others
SetDelete(ids, id) == SelectSeq(ids, LAMBDA x : x # id)

\* `!x` of a string-or-null: null and the empty string are falsy
Falsy(id) == id = Null \/ id = ""

\* params.serviceTime ?? 5, in ticks
ServiceTime(p) ==
  IF "serviceTime" \in DOMAIN p THEN p.serviceTime * TicksPerMinute
  ELSE 5 * TicksPerMinute

\* orderMap.get(id): a later order of the same id overwrites an earlier one
OrderOf(os, id) ==
  LET idx == {i \in 1..Len(os) : os[i].order_id = id}
  IN os[CHOOSE i \in idx : \A j \in idx : j <= i]

\* new Set(orders.map(o => o.order_id)): the ids in list order, repeats dropped
AllOrderIds(os) ==
  LET ids == [i \in 1..Len(os) |-> os[i].order_id]
      first(i) == \A j \in 1..(i - 1) : ids[j] # ids[i]
      F[i \in 0..Len(os)] ==
        IF i = 0 THEN <<>>
        ELSE IF first(i) THEN Append(F[i - 1], ids[i]) ELSE F[i - 1]
  IN F[Len(os)]

\* Math.min(...orders.map(o => o.order_time.getTime())); Math.min() is Infinity
StartingTime(os) ==
  IF os = <<>> THEN Infinity
  ELSE LET ts == {os[i].order_time : i \in 1..Len(os)}
       IN CHOOSE t \in ts : \A u \in ts : t <= u

----------------------------------------------------------------------------
(* Cost model *)

Abs(x) == IF x < 0 THEN 0 - x ELSE x

compute_distance(loc1, loc2) == Abs(loc2 - loc1)

\* (distance / speedKmh) * 60, in ticks
compute_travel_time(distance, speedKmh) ==
  IF speedKmh = 0 THEN (IF distance = 0 THEN NaN ELSE Infinity)
  ELSE IF speedKmh < 0
    THEN 0 - ((distance * 60 * TicksPerMinute) \div ((0 - speedKmh) * UnitsPerKm))
  ELSE (distance * 60 * TicksPerMinute) \div (speedKmh * UnitsPerKm)

\* a variant without Math.max(0, .): an early arrival would earn credit
compute_delay_penalty_signed(arrivalTime, dueTime) ==
  Minus(DateGetTime(arrivalTime), dueTime)

compute_delay_penalty(arrivalTime, dueTime) ==
  MathMax0(Minus(DateGetTime(arrivalTime), dueTime))

\* a variant that charges lateness whatever gamma is
compute_step_cost_unweighted_delay(distance, travelTime, delayPenalty, p) ==
  LET distanceCost == Times(Times(p.alpha, distance), TicksPerMinute)
      timeCost == Times(Times(p.beta, travelTime), UnitsPerKm)
      delayCost == Times(delayPenalty, UnitsPerKm)
  IN [totalCost |-> Plus(Plus(distanceCost, timeCost), delayCost),
      distanceCost |-> distanceCost,
      timeCost |-> timeCost,
      delayCost |-> delayCost]

compute_step_cost(distance, travelTime, delayPenalty, p) ==
  LET distanceCost == Times(Times(p.alpha, distance), TicksPerMinute)
      timeCost == Times(Times(p.beta, travelTime), UnitsPerKm)
      delayCost == Times(Times(p.gamma, delayPenalty), UnitsPerKm)
  IN [totalCost |-> Plus(Plus(distanceCost, timeCost), delayCost),
      distanceCost |-> distanceCost,
      timeCost |-> timeCost,
      delayCost |-> delayCost]

\* a variant of the search's transition that forgets the service time
Transition_no_service(loc, t, order, p) ==
  LET distance == compute_distance(loc, order.latitude)
      travelTime == compute_travel_time(distance, p.averageSpeed)
      arrivalTimeMs == Plus(t, travelTime)
      delayPenalty == compute_delay_penalty(arrivalTimeMs, order.due_time)
  IN [distance |-> distance,
      travelTime |-> travelTime,
      arrivalTimeMs |-> arrivalTimeMs,
      delayPenalty |-> delayPenalty,
      costBreakdown |-> compute_step_cost(distance, travelTime, delayPenalty, p)]

\* the transition of the search, lines 301-314: deliver `order` next from
\* location loc at clock time t
Transition(loc, t, order, p) ==
  LET distance == compute_distance(loc, order.latitude)
      travelTime == compute_travel_time(distance, p.averageSpeed)
      arrivalTimeMs == Plus(t, Plus(travelTime, ServiceTime(p)))
      delayPenalty == compute_delay_penalty(arrivalTimeMs, order.due_time)
  IN [distance |-> distance,
      travelTime |-> travelTime,
      arrivalTimeMs |-> arrivalTimeMs,
      delayPenalty |-> delayPenalty,
      costBreakdown |-> compute_step_cost(distance, travelTime, delayPenalty, p)]

\* the transition of the extraction, lines 392-401
ReplayTransition(loc, t, order, p) ==
  LET distance == compute_distance(loc, order.latitude)
      travelTime == compute_travel_time(distance, p.averageSpeed)
      serviceTime == ServiceTime(p)
      arrivalTimeMs == Plus(t, Plus(travelTime, serviceTime))
      delayPenalty == compute_delay_penalty(arrivalTimeMs, order.due_time)
  IN [distance |-> distance,
      travelTime |-> travelTime,
      arrivalTimeMs |-> arrivalTimeMs,
      delayPenalty |-> delayPenalty,
      costBreakdown |-> compute_step_cost(distance, travelTime, delayPenalty, p)]

----------------------------------------------------------------------------
(* State key and memo *)

create_state_key(currentLocation, remainingOrderIds, t) ==
  <<currentLocation, Join(SortedIds(remainingOrderIds)), MathRoundMinutes(t)>>

describe_state(currentLocation, remainingOrderIds, t) ==
  [loc |-> currentLocation,
   remaining |-> Len(remainingOrderIds),
   time |-> IF IsFinite(t) THEN t \div TicksPerMinute ELSE t]

\* a variant of memo.has that finds nothing
MemoHas_never(m, key) == FALSE

\* memo.has
MemoHas(m, key) == \E i \in 1..Len(m) : m[i].key = key

\* a variant of memo.get that answers with the oldest entry
MemoGet_first(m, key) == m[1]

\* memo.get
MemoGet(m, key) == m[CHOOSE i \in 1..Len(m) : m[i].key = key]

\* a variant of Map.set that replaces the newest entry
MemoSet_overwrite(m, key, res) ==
  LET e == [key |-> key, cost |-> res.cost, nextOrderId |-> res.nextOrderId]
  IN IF m = <<>> THEN <<e>> ELSE [m EXCEPT ![Len(m)] = e]

\* Map.set: a new key is appended, an existing key keeps its place
MemoSet(m, key, res) ==
  LET e == [key |-> key, cost |-> res.cost, nextOrderId |-> res.nextOrderId]
  IN IF MemoHas(m, key)
     THEN [i \in 1..Len(m) |-> IF m[i].key = key THEN e ELSE m[i]]
     ELSE Append(m, e)

\* a variant that captures every visit
TracePush_uncapped(trace, entry) == Append(trace, entry)

\* recursionTrace.push under `if (recursionTrace.length < 50)`
TracePush(trace, entry) == IF Len(trace) < 50 THEN Append(trace, entry) ELSE trace

----------------------------------------------------------------------------
(* dp_solve: entry *)

\* a variant in which a call made by dp_recursive keeps its caller's depth
Frame_flat(loc, remaining, t, depth) ==
  [currentLocation |-> loc, remainingOrderIds |-> remaining, currentTime |-> t,
   depth |-> IF depth = 0 THEN 0 ELSE depth - 1, stage |-> "enter",
   stateKey |-> <<>>, i |-> 1, minCost |-> Infinity, bestNextOrder |-> Null,
   stepCost |-> 0, candidateTotals |-> <<>>]

\* the activation record of a call of dp_recursive
Frame(loc, remaining, t, depth) ==
  [currentLocation |-> loc, remainingOrderIds |-> remaining, currentTime |-> t,
   depth |-> depth, stage |-> "enter", stateKey |-> <<>>, i |-> 1,
   minCost |-> Infinity, bestNextOrder |-> Null, stepCost |-> 0,
   candidateTotals |-> <<>>]

Top == stack[Len(stack)]
Pop == SubSeq(stack, 1, Len(stack) - 1)
ReplaceTop(f) == [stack EXCEPT ![Len(stack)] = f]

\* a variant whose memo and counters are module-level: they survive a call
dp_solve_shared_memo ==
  /\ pc = "idle"
  /\ pending # <<>>
  /\ orders' = Head(pending).orders
  /\ params' = Head(pending).params
  /\ pending' = Tail(pending)
  /\ stack' = <<Frame(DEPOT_LOCATION, AllOrderIds(orders'), StartingTime(orders'), 0)>>
  /\ ret' = [cost |-> 0, nextOrderId |-> Null]
  /\ pc' = "search"
  /\ UNCHANGED <<pageVars, memo, statesEvaluated, memoHits, maxDepth, recursionTrace,
                 history, extractVars, result>>

\* lines 213-229 and 356-357: fresh memo and counters, then the root call
dp_solve ==
  /\ pc = "idle"
  /\ pending # <<>>
  /\ orders' = Head(pending).orders
  /\ params' = Head(pending).params
  /\ pending' = Tail(pending)
  /\ memo' = <<>>
  /\ statesEvaluated' = 0
  /\ memoHits' = 0
  /\ maxDepth' = 0
  /\ recursionTrace' = <<>>
  /\ stack' = <<Frame(DEPOT_LOCATION, AllOrderIds(orders'), StartingTime(orders'), 0)>>
  /\ ret' = [cost |-> 0, nextOrderId |-> Null]
  /\ pc' = "search"
  /\ UNCHANGED <<pageVars, history, extractVars, result>>

----------------------------------------------------------------------------
(* dp_recursive *)

MaxOf(a, b) == IF a > b THEN a ELSE b

\* a variant without the base case: the empty state is evaluated and stored
IsTerminal_never(remainingOrderIds) == FALSE

\* line 255: `if (remainingOrderIds.size === 0)`
IsTerminal(remainingOrderIds) == Len(remainingOrderIds) = 0

\* a variant that tests for the base case before it records the depth
BaseCase_uncounted ==
  /\ pc = "search" /\ stack # <<>> /\ Top.stage = "enter"
  /\ IsTerminal(Top.remainingOrderIds)
  /\ ret' = [cost |-> 0, nextOrderId |-> Null]
  /\ stack' = Pop
  /\ UNCHANGED <<pageVars, pending, history, pc, orders, params, memo, statesEvaluated,
                 memoHits, maxDepth, recursionTrace, extractVars, result>>

\* a variant whose base case goes through the memo like any other state
BaseCase_stored ==
  /\ pc = "search" /\ stack # <<>> /\ Top.stage = "enter"
  /\ IsTerminal(Top.remainingOrderIds)
  /\ maxDepth' = MaxOf(maxDepth, Top.depth)
  /\ ret' = [cost |-> 0, nextOrderId |-> Null]
  /\ memo' = MemoSet(memo, create_state_key(Top.currentLocation,
                             Top.remainingOrderIds, Top.currentTime), ret')
  /\ stack' = Pop
  /\ UNCHANGED <<pageVars, pending, history, pc, orders, params, statesEvaluated,
                 memoHits, recursionTrace, extractVars, result>>

\* lines 251-257: the base case
BaseCase ==
  /\ pc = "search" /\ stack # <<>> /\ Top.stage = "enter"
  /\ IsTerminal(Top.remainingOrderIds)
  /\ maxDepth' = MaxOf(maxDepth, Top.depth)
  /\ ret' = [cost |-> 0, nextOrderId |-> Null]
  /\ stack' = Pop
  /\ UNCHANGED <<pageVars, pending, history, pc, orders, params, memo, statesEvaluated,
                 memoHits, recursionTrace, extractVars, result>>

\* lines 259-275: the memo check succeeds
MemoHit ==
  /\ pc = "search" /\ stack # <<>> /\ Top.stage = "enter"
  /\ ~IsTerminal(Top.remainingOrderIds)
  /\ LET stateKey == create_state_key(Top.currentLocation, Top.remainingOrderIds,
                                      Top.currentTime)
     IN /\ MemoHas(memo, stateKey)
        /\ maxDepth' = MaxOf(maxDepth, Top.depth)
        /\ memoHits' = memoHits + 1
        /\ recursionTrace' = TracePush(recursionTrace,
             [depth |-> Top.depth,
              stateDescription |-> describe_state(Top.currentLocation,
                                     Top.remainingOrderIds, Top.currentTime),
              action |-> "memo_hit"])
        /\ ret' = [cost |-> MemoGet(memo, stateKey).cost,
                   nextOrderId |-> MemoGet(memo, stateKey).nextOrderId]
        /\ stack' = Pop
  /\ UNCHANGED <<pageVars, pending, history, pc, orders, params, memo, statesEvaluated,
                 extractVars, result>>

\* lines 259-290: the memo check fails, the state is evaluated
Evaluate ==
  /\ pc = "search" /\ stack # <<>> /\ Top.stage = "enter"
  /\ ~IsTerminal(Top.remainingOrderIds)
  /\ LET stateKey == create_state_key(Top.currentLocation, Top.remainingOrderIds,
                                      Top.currentTime)
     IN /\ ~MemoHas(memo, stateKey)
        /\ maxDepth' = MaxOf(maxDepth, Top.depth)
        /\ statesEvaluated' = statesEvaluated + 1
        /\ recursionTrace' = TracePush(recursionTrace,
             [depth |-> Top.depth,
              stateDescription |-> describe_state(Top.currentLocation,
                                     Top.remainingOrderIds, Top.currentTime),
              action |-> "evaluate"])
        /\ stack' = ReplaceTop([Top EXCEPT !.stage = "loop", !.stateKey = stateKey,
                                           !.i = 1, !.minCost = Infinity,
                                           !.bestNextOrder = Null])
  /\ UNCHANGED <<pageVars, pending, history, pc, orders, params, memo, memoHits, ret,
                 extractVars, result>>

\* lines 292-326: one candidate of the loop, up to the recursive call
Candidate ==
  /\ pc = "search" /\ stack # <<>> /\ Top.stage = "loop"
  /\ Top.i <= Len(Top.remainingOrderIds)
  /\ LET orderId == Top.remainingOrderIds[Top.i]
         order == OrderOf(orders, orderId)
         tr == Transition(Top.currentLocation, Top.currentTime, order, params)
         newRemaining == SetDelete(Top.remainingOrderIds, orderId)
     IN stack' = Append(ReplaceTop([Top EXCEPT !.stage = "wait",
                                       !.stepCost = tr.costBreakdown.totalCost]),
                        Frame(order.latitude, newRemaining, tr.arrivalTimeMs,
                              Top.depth + 1))
  /\ UNCHANGED <<pageVars, pending, history, pc, orders, params, memo, statesEvaluated,
                 memoHits, maxDepth, recursionTrace, ret, extractVars, result>>

\* line 329: `const totalCost = stepCost + futureResult.cost`
FutureTotal(stepCost, futureCost) == Plus(stepCost, futureCost)

\* a variant with `<=`: the last of several tied candidates would win
Better_or_equal(total, minCost) == LessThan(total, minCost) \/ NumEq(total, minCost)

\* lines 331-334: `if (totalCost < minCost)`
Better(total, minCost) == LessThan(total, minCost)

\* lines 328-335: the recursive call has returned
Combine ==
  /\ pc = "search" /\ stack # <<>> /\ Top.stage = "wait"
  /\ LET orderId == Top.remainingOrderIds[Top.i]
         total == FutureTotal(Top.stepCost, ret.cost)
         better == Better(total, Top.minCost)
     IN stack' = ReplaceTop([Top EXCEPT
          !.stage = "loop",
          !.i = Top.i + 1,
          !.minCost = IF better THEN total ELSE Top.minCost,
          !.bestNextOrder = IF better THEN orderId ELSE Top.bestNextOrder,
          !.candidateTotals = Append(Top.candidateTotals, total)])
  /\ UNCHANGED <<pageVars, pending, history, pc, orders, params, memo, statesEvaluated,
                 memoHits, maxDepth, recursionTrace, ret, extractVars, result>>

\* lines 337-352: store and return
Store ==
  /\ pc = "search" /\ stack # <<>> /\ Top.stage = "loop"
  /\ Top.i > Len(Top.remainingOrderIds)
  /\ LET res == [cost |-> Top.minCost, nextOrderId |-> Top.bestNextOrder]
     IN /\ memo' = MemoSet(memo, Top.stateKey, res)
        /\ recursionTrace' = TracePush(recursionTrace,
             [depth |-> Top.depth,
              stateDescription |-> describe_state(Top.currentLocation,
                                     Top.remainingOrderIds, Top.currentTime),
              action |-> "memo_store",
              selectedOrder |-> IF Falsy(Top.bestNextOrder) THEN "undefined"
                                ELSE Top.bestNextOrder,
              cost |-> Top.minCost])
        /\ ret' = res
        /\ stack' = Pop
  /\ UNCHANGED <<pageVars, pending, history, pc, orders, params, statesEvaluated, memoHits,
                 maxDepth, extractVars, result>>

----------------------------------------------------------------------------
(* dp_solve: policy extraction and return *)

\* lines 364-379
PolicyExtractionInit ==
  /\ pc = "search" /\ stack = <<>>
  /\ sequence' = <<>>
  /\ keyDecisions' = <<>>
  /\ currentLoc' = DEPOT_LOCATION
  /\ currentTime' = StartingTime(orders)
  /\ remainingIds' = AllOrderIds(orders)
  /\ totalDistance' = 0
  /\ totalTravelTime' = 0
  /\ totalDelayPenalty' = 0
  /\ totalCost' = 0
  /\ totalDistanceCost' = 0
  /\ totalTimeCost' = 0
  /\ totalDelayCost' = 0
  /\ stepNumber' = 1
  /\ broke' = FALSE
  /\ pc' = "extract"
  /\ UNCHANGED <<pageVars, pending, history, orders, params, searchVars, result>>

\* a variant that tests for the last remaining request before it tests for
\* lateness
DecisionReason_only_first(delayPenalty, alternativesCount) ==
  IF delayPenalty = 0 /\ alternativesCount > 0 THEN "on_time"
  ELSE IF alternativesCount = 0 THEN "only_remaining"
  ELSE IF LessThan(0, delayPenalty) THEN "late"
  ELSE "generic"

\* lines 405-421: which of the four reasons a step gets
DecisionReason(delayPenalty, alternativesCount) ==
  IF delayPenalty = 0 /\ alternativesCount > 0 THEN "on_time"
  ELSE IF LessThan(0, delayPenalty) THEN "late"
  ELSE IF alternativesCount = 0 THEN "only_remaining"
  ELSE "generic"

\* line 385: `if (!result || !result.nextOrderId) break;`
LookupFails(m, key) ==
  IF MemoHas(m, key) THEN Falsy(MemoGet(m, key).nextOrderId) ELSE TRUE

\* the model follows the extraction loop for this many iterations
MaxSteps == 6

\* a variant with `=` for `+=`: a total holds the last step's value only
Accumulate_overwrite(total, value) == value

\* lines 444-450: `total += value`
Accumulate(total, value) == Plus(total, value)

\* lines 381-456: one iteration of the extraction loop that delivers an order
ExtractStep ==
  /\ pc = "extract"
  /\ Len(remainingIds) > 0
  /\ Len(sequence) < MaxSteps
  /\ LET stateKey == create_state_key(currentLoc, remainingIds, currentTime)
     IN /\ ~LookupFails(memo, stateKey)
        /\ LET nextOrderId == MemoGet(memo, stateKey).nextOrderId
               order == OrderOf(orders, nextOrderId)
               tr == ReplayTransition(currentLoc, currentTime, order, params)
               alternativesCount == Len(remainingIds) - 1
           IN /\ keyDecisions' = Append(keyDecisions,
                    [step |-> stepNumber,
                     orderId |-> order.order_id,
                     reason |-> DecisionReason(tr.delayPenalty, alternativesCount),
                     alternativesConsidered |-> alternativesCount + 1])
              /\ sequence' = Append(sequence,
                    [order |-> order,
                     arrivalTime |-> DateGetTime(tr.arrivalTimeMs),
                     distance |-> tr.distance,
                     travelTime |-> tr.travelTime,
                     delayPenalty |-> tr.delayPenalty,
                     stepCost |-> tr.costBreakdown.totalCost,
                     costBreakdown |->
                       [distanceCost |-> tr.costBreakdown.distanceCost,
                        timeCost |-> tr.costBreakdown.timeCost,
                        delayCost |-> tr.costBreakdown.delayCost]])
              /\ totalDistance' = Accumulate(totalDistance, tr.distance)
              /\ totalTravelTime' = Accumulate(totalTravelTime, tr.travelTime)
              /\ totalDelayPenalty' = Accumulate(totalDelayPenalty, tr.delayPenalty)
              /\ totalCost' = Accumulate(totalCost, tr.costBreakdown.totalCost)
              /\ totalDistanceCost' = Accumulate(totalDistanceCost, tr.costBreakdown.distanceCost)
              /\ totalTimeCost' = Accumulate(totalTimeCost, tr.costBreakdown.timeCost)
              /\ totalDelayCost' = Accumulate(totalDelayCost, tr.costBreakdown.delayCost)
              /\ currentLoc' = order.latitude
              /\ currentTime' = tr.arrivalTimeMs
              /\ remainingIds' = SetDelete(remainingIds, nextOrderId)
              /\ stepNumber' = stepNumber + 1
  /\ UNCHANGED <<pageVars, pending, history, pc, orders, params, searchVars, broke, result>>

Take(s, n) == SubSeq(s, 1, IF Len(s) < n THEN Len(s) ELSE n)

\* lines 463-488
MemoizationExamples(m) ==
  LET first == Take(m, 5)
  IN [k \in 1..Len(first) |->
        [stateKey |-> first[k].key,
         remainingOrderIds |-> SelectSeq(Split(first[k].key[2]), LAMBDA id : id # ""),
         optimalCost |-> first[k].cost,
         bestNextOrder |-> first[k].nextOrderId]]

\* ((part / total) * 100).toFixed(1), in tenths of a percent: 0 / 0 is NaN and
\* x / 0 is an infinity
Percentage(part, total) ==
  IF IsNaN(part) \/ IsNaN(total) THEN NaN
  ELSE IF ~IsFinite(total) THEN (IF IsFinite(part) THEN 0 ELSE NaN)
  ELSE IF ~IsFinite(part) THEN (IF total < 0 THEN Minus(0, part) ELSE part)
  ELSE IF total = 0
    THEN (IF part = 0 THEN NaN ELSE IF part > 0 THEN Infinity ELSE NegInfinity)
  ELSE LET num == Abs(part)
           den == Abs(total)
           r1 == num % den
           r2 == (r1 * 100) % den
           q == (num \div den) * 1000 + ((r1 * 100) \div den) * 10
                  + (r2 * 10 + den \div 2) \div den
       IN IF (part < 0) = (total < 0) THEN q ELSE 0 - q

\* lines 513-521: which weight the trade-off text names as the priority
TradeoffPriority(p) ==
  IF p.gamma > p.alpha /\ p.gamma > p.beta THEN "delay"
  ELSE IF p.alpha > p.beta /\ p.alpha > p.gamma THEN "distance"
  ELSE IF p.beta > p.alpha /\ p.beta > p.gamma THEN "time"
  ELSE "balanced"

\* lines 511-526: what the text of tradeoffAnalysis is made of
TradeoffAnalysis ==
  [priority |-> TradeoffPriority(params),
   distancePct |-> Percentage(totalDistanceCost, totalCost),
   timePct |-> Percentage(totalTimeCost, totalCost),
   delayPct |-> Percentage(totalDelayCost, totalCost)]

\* lines 537-560: the OptimizationResult
OptimizationResult ==
  [sequence |-> sequence,
   totalDistance |-> totalDistance,
   totalTravelTime |-> totalTravelTime,
   totalDelayPenalty |-> totalDelayPenalty,
   totalCost |-> totalCost,
   dpStatistics |->
     [totalStatesEvaluated |-> statesEvaluated,
      totalMemoHits |-> memoHits,
      uniqueStatesStored |-> Len(memo),
      maxRecursionDepth |-> maxDepth,
      memoizationExamples |-> MemoizationExamples(memo),
      recursionTrace |-> Take(recursionTrace, 30)],
   costContributions |->
     [distanceContribution |-> totalDistanceCost,
      timeContribution |-> totalTimeCost,
      delayContribution |-> totalDelayCost],
   explanation |-> [keyDecisions |-> keyDecisions,
                    tradeoffAnalysis |-> TradeoffAnalysis]]

\* lines 458-560: everything after the loop; dp_solve has no throw statement
\* and Index.tsx lines 61-70: the page keeps the result, and isOptimizing is
\* false again
ReturnResult ==
  /\ result' = OptimizationResult
  /\ history' = Append(history, [orders |-> orders, params |-> params,
                                 result |-> OptimizationResult])
  /\ pc' = "idle"
  /\ isOptimizing' = FALSE
  /\ UNCHANGED <<pageOrders, pageParams, pageError, fileName, events>>

\* line 381: the loop condition fails, the remaining set is empty
ExtractEnd ==
  /\ pc = "extract"
  /\ Len(remainingIds) = 0
  /\ ReturnResult
  /\ UNCHANGED <<pending, orders, params, searchVars, extractVars>>

\* line 385: the loop is left by `break` with orders remaining
ExtractBreak ==
  /\ pc = "extract"
  /\ Len(remainingIds) > 0
  /\ LookupFails(memo, create_state_key(currentLoc, remainingIds, currentTime))
  /\ broke' = TRUE
  /\ ReturnResult
  /\ UNCHANGED <<pending, orders, params, searchVars, sequence, keyDecisions,
                 currentLoc, currentTime, remainingIds, totalDistance,
                 totalTravelTime, totalDelayPenalty, totalCost, totalDistanceCost,
                 totalTimeCost, totalDelayCost, stepNumber>>

----------------------------------------------------------------------------
(* What is shown and exported of a result *)

\* ResultInterpretation.tsx lines 31-34 and 86-94: the three percentages
ResultInterpretation(res) ==
  [distancePct |-> Percentage(res.costContributions.distanceContribution,
                              res.totalCost),
   timePct |-> Percentage(res.costContributions.timeContribution, res.totalCost),
   delayPct |-> Percentage(res.costContributions.delayContribution, res.totalCost)]

\* exportToExcel, csv-parser.ts lines 561-568: the percentages of sheet 4
exportToExcel(res) ==
  LET totalContribution ==
        Plus(Plus(res.costContributions.distanceContribution,
                  res.costContributions.timeContribution),
             res.costContributions.delayContribution)
      pct(part) == IF LessThan(0, totalContribution)
                   THEN Percentage(part, totalContribution) ELSE 0
  IN [distancePercent |-> pct(res.costContributions.distanceContribution),
      timePercent |-> pct(res.costContributions.timeContribution),
      delayPercent |-> pct(res.costContributions.delayContribution)]

----------------------------------------------------------------------------
(* The inputs the caller passes *)

MaxOrders == 3
MaxRuns == 3

Order(id, lat, ot, due) ==
  [order_id |-> id, latitude |-> lat, order_time |-> ot, due_time |-> due]

\* the ids of a list, in list order: unique, and not in string order
IdList == <<"B", "A", "D", "C", "E">>

\* <<latitude, order_time, due_time>> an order of a generated list may have
OrderOptions == {<<-1, 0, 4>>, <<1, 0, 4>>, <<2, 0, 4>>, <<2, 2, 12>>}

ListOf(opts) ==
  [i \in 1..Len(opts) |-> Order(IdList[i], opts[i][1], opts[i][2], opts[i][3])]

Lists(n) == {ListOf(o) : o \in [1..n -> OrderOptions]}

BroadLists == UNION {Lists(n) : n \in 0..MaxOrders}

\* a record without the optional serviceTime field, as the page's defaults are,
\* and two records with it
ValidParams ==
  {[averageSpeed |-> 30, alpha |-> 1, beta |-> 1, gamma |-> 2],
   [averageSpeed |-> 30, serviceTime |-> 0, alpha |-> 1, beta |-> 0, gamma |-> 2],
   [averageSpeed |-> 15, serviceTime |-> 0, alpha |-> 0, beta |-> 0, gamma |-> 1]}

\* records the number fields of the page let through: a cleared speed field
\* reads 0, a typed minus sign gives a negative weight
InvalidParams ==
  {[averageSpeed |-> 0, serviceTime |-> 0, alpha |-> 1, beta |-> 1, gamma |-> 2],
   [averageSpeed |-> 30, serviceTime |-> 0, alpha |-> 1, beta |-> 0, gamma |-> -1]}

ValidParameters(p) ==
  p.averageSpeed > 0 /\ p.alpha >= 0 /\ p.beta >= 0 /\ p.gamma >= 0

Input(os, p) == [orders |-> os, params |-> p]

\* four orders: two routes reach D's location with {C} left at clocks that
\* differ by half a minute and round to the same minute
ScenarioFour ==
  Input(ListOf(<< <<-2, 0, 4>>, <<1, 0, 4>>, <<2, 0, 8>>, <<3, 0, 4>> >>),
        [averageSpeed |-> 30, serviceTime |-> 0, alpha |-> 1, beta |-> 0, gamma |-> 2])

\* five orders, two pairs of them at one address
ScenarioFive ==
  Input(ListOf(<< <<-2, 0, 12>>, <<-2, 0, 12>>, <<-1, 0, 4>>, <<-1, 0, 4>>, <<1, 0, 4>> >>),
        [averageSpeed |-> 30, serviceTime |-> 0, alpha |-> 1, beta |-> 0, gamma |-> 2])

\* three late requests at one address, the third id the two others joined by
\* a comma, and no service time
ScenarioJoined ==
  Input(<<Order("A", 1, 0, 0), Order("B", 1, 0, 0), Order("A,B", 1, 0, 0)>>,
        [averageSpeed |-> 30, serviceTime |-> 0, alpha |-> 1, beta |-> 0, gamma |-> 2])

Singles ==
  {Input(os, p) : os \in BroadLists, p \in ValidParams}
  \cup {Input(os, p) : os \in {l \in BroadLists : Len(l) <= 2}, p \in InvalidParams}
  \cup {ScenarioFour, ScenarioFive, ScenarioJoined}

\* the same requests solved twice, the second time with a larger gamma
GammaBase == [averageSpeed |-> 30, serviceTime |-> 1, alpha |-> 5, beta |-> 1]
WithGamma(p, g) == [x \in DOMAIN p \cup {"gamma"} |-> IF x = "gamma" THEN g ELSE p[x]]
GammaSteps == {<<0, 1>>, <<1, 3>>}
GammaOptions == {<<-7, 0, 17>>, <<-7, 0, 14>>, <<-5, 0, 31>>, <<1, 0, 4>>}
GammaLists ==
  UNION {{ListOf(o) : o \in [1..n -> GammaOptions]} : n \in 1..3}
GammaPairs ==
  {<<Input(os, WithGamma(GammaBase, g[1])), Input(os, WithGamma(GammaBase, g[2]))>> :
     os \in GammaLists, g \in GammaSteps}

\* four orders on one road, solved with gamma 0 and then with gamma 1
ScenarioGamma ==
  LET os == ListOf(<< <<4, 0, 4>>, <<2, 0, 10>>, <<1, 0, 16>>, <<3, 0, 4>> >>)
      p == [averageSpeed |-> 30, serviceTime |-> 0, alpha |-> 0, beta |-> 1]
  IN <<Input(os, WithGamma(p, 0)), Input(os, WithGamma(p, 1))>>

\* the same three requests solved twice with gamma 0, the due times edited
\* between the two calls
DueOptions == {<<1, 1, 1>>, <<4, 1, 12>>, <<12, 4, 1>>}
DueList(d) == ListOf(<< <<1, 0, d[1]>>, <<-1, 0, d[2]>>, <<2, 0, d[3]>> >>)
ZeroGammaParams ==
  {[averageSpeed |-> 30, serviceTime |-> 0, alpha |-> 1, beta |-> 1, gamma |-> 0],
   [averageSpeed |-> 30, serviceTime |-> 1, alpha |-> 0, beta |-> 1, gamma |-> 0],
   [averageSpeed |-> 15, serviceTime |-> 0, alpha |-> 1, beta |-> 0, gamma |-> 0]}
DuePairs ==
  {<<Input(DueList(d1), p), Input(DueList(d2), p)>> :
     d1 \in DueOptions, d2 \in DueOptions, p \in ZeroGammaParams}

\* several calls one after the other
RunInputs ==
  {Input(ListOf(<< <<1, 0, 4>>, <<-1, 0, 4>> >>),
         [averageSpeed |-> 30, serviceTime |-> 0, alpha |-> 1, beta |-> 0, gamma |-> 2]),
   Input(ListOf(<< <<1, 0, 4>>, <<-1, 0, 1>> >>),
         [averageSpeed |-> 30, serviceTime |-> 0, alpha |-> 1, beta |-> 0, gamma |-> 2]),
   Input(ListOf(<< <<2, 0, 4>>, <<2, 0, 4>>, <<-1, 0, 4>> >>),
         [averageSpeed |-> 30, serviceTime |-> 0, alpha |-> 0, beta |-> 0, gamma |-> 1])}

SeqsOf(S, n) == UNION {[1..k -> S] : k \in 2..n}

RunSequences == SeqsOf(RunInputs, MaxRuns)

InitialPending ==
  {<<i>> : i \in Singles} \cup GammaPairs \cup {ScenarioGamma} \cup DuePairs
    \cup RunSequences

----------------------------------------------------------------------------
(* The page: loading a file, editing a parameter, starting the solver *)

MaxRows == 2

\* 90 degrees north and south of the equator, as offsets from the depot in grid
\* units (the depot lies 0.0263 degrees south: 6371 km * pi / 2 * UnitsPerKm
\* = 80060 units from the equator to a pole, the depot 23 units south)
MaxLatitude == 80083
MinLatitude == -80037

\* the texts of the model's cells and fields that parseFloat reads as a number
\* (coordinates are written as grid offsets from the depot)
NumberOf ==
  ("0" :> 0) @@ ("1" :> 1) @@ ("2" :> 2) @@ ("24" :> 24) @@ ("-30" :> -30)
  @@ ("80100" :> 80100) @@ ("1abc" :> 1)

\* parseFloat: the number a text starts with, NaN for a text that starts with
\* none (the empty text and "abc")
parseFloat(text) == IF text \in DOMAIN NumberOf THEN NumberOf[text] ELSE NaN

\* the date texts of the model, as ticks after the first of them
TimeOf == ("08:00" :> 0) @@ ("08:01" :> 4) @@ ("08:02" :> 8) @@ ("08:20" :> 80)

\* parseDateTime, then getTime(): a text that is no date gives an invalid Date
\* or throws, and both end in a rejected file
parseDateTime(text) == IF text \in DOMAIN TimeOf THEN TimeOf[text] ELSE NaN

\* a line of a file is kept as its pieces: a quote, a comma, or a text without
\* either; a blank line has none
Quote == "\""
Comma == ","

\* csv-parser.ts lines 65-85: a quote switches inQuotes, a comma outside quotes
\* ends the cell, everything else is added to the cell
RECURSIVE ParseLine(_, _, _, _)
ParseLine(line, current, inQuotes, cells) ==
  IF line = <<>> THEN Append(cells, current)
  ELSE LET char == Head(line)
       IN IF char = Quote THEN ParseLine(Tail(line), current, ~inQuotes, cells)
          ELSE IF char = Comma /\ ~inQuotes
            THEN ParseLine(Tail(line), "", inQuotes, Append(cells, current))
          ELSE ParseLine(Tail(line), current \o char, inQuotes, cells)

parseCSVLine(line) == ParseLine(line, "", FALSE, <<>>)

\* the line of a row whose cells need no quotes
CsvRow(id, lat, lng, ot, due) ==
  (IF id = "" THEN <<>> ELSE <<id>>)
    \o <<Comma, lat, Comma, lng, Comma, ot, Comma, due>>

\* the line of a row whose id is written in quotes with a comma inside
QuotedRow(a, b, lat, lng, ot, due) ==
  <<Quote, a, Comma, b, Quote, Comma, lat, Comma, lng, Comma, ot, Comma, due>>

\* the data lines a file of the model is made of: a request 3 km north of the
\* depot, a request with
\* the same id 5 km beyond the pole, a request without an id, a request whose
\* latitude has letters after its digits, a line whose longitude is no number,
\* a line whose due time is no date, a blank line and a line with too few cells
RowOptions ==
  {CsvRow("A", "24", "0", "08:00", "08:01"),
   CsvRow("A", "80100", "0", "08:00", "08:02"),
   CsvRow("", "2", "0", "08:00", "08:01"),
   CsvRow("B", "1abc", "0", "08:00", "08:01"),
   CsvRow("D", "1", "abc", "08:00", "08:01"),
   CsvRow("D", "1", "0", "08:00", "abc"),
   <<>>, <<"E", Comma, "1">>}

\* four requests at one address, two of them due within a minute and two of
\* them late in the day, two of the ids written in quotes
CommaFile ==
  [header |-> TRUE,
   rows |-> <<CsvRow("A", "1", "0", "08:00", "08:01"),
              QuotedRow("B", "C", "1", "0", "08:00", "08:01"),
              QuotedRow("A", "B", "1", "0", "08:00", "08:20"),
              CsvRow("C", "1", "0", "08:00", "08:20")>>]

\* the files of the model: every file of up to MaxRows data lines under the
\* header, one file under a header that lacks a column, and CommaFile
CsvFiles ==
  {[header |-> TRUE, rows |-> r] :
     r \in UNION {[1..n -> RowOptions] : n \in 0..MaxRows}}
  \cup {[header |-> FALSE, rows |-> <<CsvRow("A", "1", "0", "08:00", "08:01")>>]}
  \cup {CommaFile}

\* lines 30-61 of parseCSV: the lines from the first on, orders collected so far
RECURSIVE ParseRows(_, _)
ParseRows(rows, acc) ==
  IF rows = <<>>
    THEN (IF acc = <<>> THEN [error |-> "No valid orders found in CSV"]
          ELSE [error |-> "", orders |-> acc])
  ELSE LET values == parseCSVLine(Head(rows))
       IN IF Head(rows) = <<>> THEN ParseRows(Tail(rows), acc)
          ELSE IF Len(values) < 5 THEN [error |-> "insufficient columns"]
          ELSE LET order == [order_id |-> values[1],
                             latitude |-> parseFloat(values[2]),
                             order_time |-> parseDateTime(values[4]),
                             due_time |-> parseDateTime(values[5])]
               IN IF IsNaN(order.latitude) \/ IsNaN(parseFloat(values[3]))
                    THEN [error |-> "Invalid coordinates"]
                  ELSE IF IsNaN(order.order_time) \/ IsNaN(order.due_time)
                    THEN [error |-> "Invalid date/time format"]
                  ELSE ParseRows(Tail(rows), Append(acc, order))

\* String.prototype.trim on the content: blank lines at the end are no lines
RECURSIVE TrimLines(_)
TrimLines(rows) ==
  IF rows # <<>> /\ rows[Len(rows)] = <<>>
    THEN TrimLines(SubSeq(rows, 1, Len(rows) - 1))
  ELSE rows

\* a parser that never looks at the header
parseCSV_any_header(file) ==
  IF TrimLines(file.rows) = <<>>
    THEN [error |-> "CSV file must have a header row and at least one data row"]
  ELSE ParseRows(TrimLines(file.rows), <<>>)

\* csv-parser.ts lines 3-63: the orders of a file, or the error thrown
parseCSV(file) ==
  IF TrimLines(file.rows) = <<>>
    THEN [error |-> "CSV file must have a header row and at least one data row"]
  ELSE IF ~file.header THEN [error |-> "Missing required columns"]
  ELSE ParseRows(TrimLines(file.rows), <<>>)

\* Index.tsx lines 15-20; the weights of the model are whole numbers, and the
\* default 0.5 of beta is taken as 1
defaultParams == [averageSpeed |-> 30, alpha |-> 1, beta |-> 1, gamma |-> 2]

\* what a number field hands on when its text is edited
\* (ParameterInputs.tsx line 47): the number typed, and 0 for a cleared field
ParamFieldValue(text) ==
  LET v == parseFloat(text) IN IF IsNaN(v) \/ v = 0 THEN 0 ELSE v

\* the edits of the model: the speed field cleared, a minus sign typed before
\* the speed, a minus sign typed before a service time
ParamEdits ==
  {<<"averageSpeed", "">>, <<"averageSpeed", "-30">>, <<"serviceTime", "-30">>}

----------------------------------------------------------------------------
(* The user of the page *)

MaxEvents == 3

NoFile == [header |-> FALSE, rows |-> <<>>]
NoEdit == <<"", "">>

\* the things a user does: a file read by the FileReader is handed to the page
\* under its name, the X next to the file name is clicked, a parameter field
\* is edited, the Optimize button or the Reset button is clicked
UploadOf(f, name) == [type |-> "upload", file |-> f, name |-> name, edit |-> NoEdit]
ClearEvent == [type |-> "clear", file |-> NoFile, name |-> "", edit |-> NoEdit]
EditOf(e) == [type |-> "edit", file |-> NoFile, name |-> "", edit |-> e]
OptimizeEvent == [type |-> "optimize", file |-> NoFile, name |-> "", edit |-> NoEdit]
ResetEvent == [type |-> "reset", file |-> NoFile, name |-> "", edit |-> NoEdit]

\* a file with one request 3 km north of the depot, and a file whose only data
\* line has too few cells
GoodFile == [header |-> TRUE, rows |-> <<CsvRow("A", "24", "0", "08:00", "08:01")>>]
BadFile == [header |-> TRUE, rows |-> <<<<"E", Comma, "1">>>>]

\* a file of three late requests at one address, the third id the two others
\* joined by a comma
JoinedFile ==
  [header |-> TRUE,
   rows |-> <<CsvRow("A", "1", "0", "08:00", "08:00"),
              CsvRow("B", "1", "0", "08:00", "08:00"),
              QuotedRow("A", "B", "1", "0", "08:00", "08:00")>>]

\* that file is loaded, 0 is typed into the service-time field, and the
\* solver is started
JoinedScript ==
  <<UploadOf(JoinedFile, "joined.csv"), EditOf(<<"serviceTime", "0">>), OptimizeEvent>>

\* a file is loaded, or loaded and solved with the parameters as they are
IngestScripts ==
  {<<UploadOf(f, "orders.csv")>> : f \in CsvFiles}
  \cup {<<UploadOf(f, "orders.csv"), OptimizeEvent>> : f \in CsvFiles}

SessionEvents ==
  {UploadOf(GoodFile, "good.csv"), UploadOf(BadFile, "bad.csv"), ClearEvent,
   OptimizeEvent, ResetEvent}
  \cup {EditOf(e) : e \in ParamEdits}

\* every order of up to MaxEvents of these
SessionScripts == UNION {[1..n -> SessionEvents] : n \in 1..MaxEvents}

\* the page handles an event between two tasks of the browser, never while
\* dp_solve runs
NextEventIs(type) == pc = "idle" /\ events # <<>> /\ Head(events).type = type

----------------------------------------------------------------------------
(* The page: loading a file, editing a parameter, starting the solver *)

\* a handler that clears the result only when the file was accepted
handleFileContent_keeps_result ==
  /\ NextEventIs("upload")
  /\ LET parsed == parseCSV(Head(events).file)
     IN IF "orders" \notin DOMAIN parsed
          THEN /\ pageError' = parsed.error
               /\ pageOrders' = pageOrders
               /\ fileName' = fileName
               /\ result' = result
          ELSE /\ pageError' = Null
               /\ pageOrders' = parsed.orders
               /\ fileName' = Head(events).name
               /\ result' = NoResult
  /\ events' = Tail(events)
  /\ UNCHANGED <<pending, history, pc, orders, params, searchVars, extractVars,
                 pageParams, isOptimizing>>

\* Index.tsx lines 30-43: reader.onload hands the content on (FileUpload.tsx
\* lines 42-49)
handleFileContent ==
  /\ NextEventIs("upload")
  /\ LET parsed == parseCSV(Head(events).file)
     IN IF "orders" \notin DOMAIN parsed
          THEN /\ pageError' = parsed.error
               /\ pageOrders' = pageOrders
               /\ fileName' = fileName
          ELSE /\ pageError' = Null
               /\ pageOrders' = parsed.orders
               /\ fileName' = Head(events).name
  /\ result' = NoResult
  /\ events' = Tail(events)
  /\ UNCHANGED <<pending, history, pc, orders, params, searchVars, extractVars,
                 pageParams, isOptimizing>>

\* Index.tsx lines 45-50; the button is there while a file name is shown
\* (FileUpload.tsx lines 61-74)
handleClear ==
  /\ NextEventIs("clear")
  /\ fileName # Null
  /\ fileName' = Null
  /\ pageOrders' = <<>>
  /\ pageError' = Null
  /\ result' = NoResult
  /\ events' = Tail(events)
  /\ UNCHANGED <<pending, history, pc, orders, params, searchVars, extractVars,
                 pageParams, isOptimizing>>

\* ParameterInputs.tsx lines 63-65: `onChange({ ...params, [key]: value })`
updateParam ==
  /\ NextEventIs("edit")
  /\ LET e == Head(events).edit
     IN pageParams' = [x \in DOMAIN pageParams \cup {e[1]} |->
                         IF x = e[1] THEN ParamFieldValue(e[2]) ELSE pageParams[x]]
  /\ events' = Tail(events)
  /\ UNCHANGED <<pending, history, pc, orders, params, searchVars, extractVars,
                 result, pageOrders, pageError, fileName, isOptimizing>>

\* Index.tsx lines 52-72, up to setTimeout: the call of dp_solve with the
\* orders and parameters of this render is queued for the timer; the button is
\* disabled while isOptimizing (lines 144-148)
handleOptimize ==
  /\ NextEventIs("optimize")
  /\ ~isOptimizing
  /\ IF pageOrders = <<>>
       THEN UNCHANGED <<isOptimizing, pageError, pending>>
       ELSE /\ isOptimizing' = TRUE
            /\ pageError' = Null
            /\ pending' = Append(pending, Input(pageOrders, pageParams))
  /\ events' = Tail(events)
  /\ UNCHANGED <<history, pc, orders, params, searchVars, extractVars, result,
                 pageOrders, pageParams, fileName>>

\* Index.tsx lines 74-77
handleReset ==
  /\ NextEventIs("reset")
  /\ pageParams' = defaultParams
  /\ result' = NoResult
  /\ events' = Tail(events)
  /\ UNCHANGED <<pending, history, pc, orders, params, searchVars, extractVars,
                 pageOrders, pageError, fileName, isOptimizing>>

----------------------------------------------------------------------------
(* Specification *)

Init ==
  /\ \/ pending \in InitialPending /\ events = <<>>
     \/ pending = <<>> /\ events \in IngestScripts \cup SessionScripts \cup {JoinedScript}
  /\ history = <<>>
  /\ pc = "idle"
  /\ orders = <<>>
  /\ params = [averageSpeed |-> 30, alpha |-> 1, beta |-> 1, gamma |-> 2]
  /\ memo = <<>>
  /\ statesEvaluated = 0
  /\ memoHits = 0
  /\ maxDepth = 0
  /\ recursionTrace = <<>>
  /\ stack = <<>>
  /\ ret = [cost |-> 0, nextOrderId |-> Null]
  /\ sequence = <<>>
  /\ keyDecisions = <<>>
  /\ currentLoc = DEPOT_LOCATION
  /\ currentTime = 0
  /\ remainingIds = <<>>
  /\ totalDistance = 0
  /\ totalTravelTime = 0
  /\ totalDelayPenalty = 0
  /\ totalCost = 0
  /\ totalDistanceCost = 0
  /\ totalTimeCost = 0
  /\ totalDelayCost = 0
  /\ stepNumber = 1
  /\ broke = FALSE
  /\ result = NoResult
  /\ pageOrders = <<>>
  /\ pageParams = defaultParams
  /\ pageError = Null
  /\ fileName = Null
  /\ isOptimizing = FALSE

Next ==
  \/ dp_solve
  \/ BaseCase
  \/ MemoHit
  \/ Evaluate
  \/ Candidate
  \/ Combine
  \/ Store
  \/ PolicyExtractionInit
  \/ ExtractStep
  \/ ExtractEnd
  \/ ExtractBreak
  \/ handleFileContent
  \/ handleClear
  \/ updateParam
  \/ handleOptimize
  \/ handleReset

Spec == Init /\ [][Next]_vars

----------------------------------------------------------------------------
(* Definitions the properties are stated with *)

\* the interface contract of section 6: unique ids, speed > 0, weights >= 0
UniqueIds(os) == \A i, j \in 1..Len(os) : os[i].order_id = os[j].order_id => i = j
\* unique non-empty ids, latitudes within 90 degrees of the equator, valid
\* time stamps
ValidOrderList(os) ==
  /\ UniqueIds(os)
  /\ \A k \in 1..Len(os) :
       /\ os[k].order_id # ""
       /\ os[k].latitude >= MinLatitude /\ os[k].latitude <= MaxLatitude
       /\ IsFinite(os[k].order_time) /\ IsFinite(os[k].due_time)

ValidatedInput(os, p) == ValidOrderList(os) /\ ValidParameters(p) /\ ServiceTime(p) >= 0

Orderings(n) == {f \in [1..n -> 1..n] : \A i, j \in 1..n : f[i] = f[j] => i = j}

\* the weighted cost of delivering the orders of list os in list order, from
\* location loc at clock time t
RECURSIVE RouteCost(_, _, _, _)
RouteCost(loc, t, os, p) ==
  IF os = <<>> THEN 0
  ELSE LET tr == Transition(loc, t, Head(os), p)
       IN tr.costBreakdown.totalCost
          + RouteCost(Head(os).latitude, tr.arrivalTimeMs, Tail(os), p)

OrderingCost(os, perm, p) ==
  RouteCost(DEPOT_LOCATION, StartingTime(os), [i \in 1..Len(os) |-> os[perm[i]]], p)

\* 0 + s[1] + ... + s[n], added from the left
RECURSIVE SumSeq(_)
SumSeq(s) ==
  IF s = <<>> THEN 0 ELSE Plus(SumSeq(SubSeq(s, 1, Len(s) - 1)), s[Len(s)])

\* the values of one field over the steps of a sequence, b for costBreakdown
StepValues(seq, field, b) ==
  [k \in 1..Len(seq) |-> IF b THEN seq[k].costBreakdown[field] ELSE seq[k][field]]

Completed == {history[i] : i \in 1..Len(history)}

----------------------------------------------------------------------------
(* C1..C10 *)

\* C1: for validated input with 1 to 6 requests, the returned totalCost is at
\* most the cost of every ordering of the requests, costed from the depot at
\* the start clock with the same transition model.
C1_Optimal ==
  \A h \in Completed :
    (ValidatedInput(h.orders, h.params) /\ Len(h.orders) \in 1..6)
      => \A perm \in Orderings(Len(h.orders)) :
           h.result.totalCost <= OrderingCost(h.orders, perm, h.params)

\* C2: for validated non-empty input, every iteration of the extraction loop
\* finds a memo entry with a chosen id for the current state's key, and the
\* returned sequence holds each request exactly once.
C2_ExtractionComplete ==
  /\ (pc = "extract" /\ ValidatedInput(orders, params) /\ Len(remainingIds) > 0)
       => ~LookupFails(memo, create_state_key(currentLoc, remainingIds, currentTime))
  /\ \A h \in Completed :
       ValidatedInput(h.orders, h.params) =>
         /\ Len(h.result.sequence) = Len(h.orders)
         /\ \A i \in 1..Len(h.orders) :
              Cardinality({k \in 1..Len(h.result.sequence) :
                             h.result.sequence[k].order = h.orders[i]}) = 1

\* the totals of record t are the sums of the per-step values of seq
TotalsMatch(seq, t) ==
  /\ NumEq(t.totalCost, SumSeq(StepValues(seq, "stepCost", FALSE)))
  /\ NumEq(t.totalDistance, SumSeq(StepValues(seq, "distance", FALSE)))
  /\ NumEq(t.totalTravelTime, SumSeq(StepValues(seq, "travelTime", FALSE)))
  /\ NumEq(t.totalDelayPenalty, SumSeq(StepValues(seq, "delayPenalty", FALSE)))
  /\ NumEq(t.costContributions.distanceContribution,
           SumSeq(StepValues(seq, "distanceCost", TRUE)))
  /\ NumEq(t.costContributions.timeContribution,
           SumSeq(StepValues(seq, "timeCost", TRUE)))
  /\ NumEq(t.costContributions.delayContribution,
           SumSeq(StepValues(seq, "delayCost", TRUE)))

\* C3: totalCost is the sum of stepCost over the sequence, and the other six
\* totals are the sums of their per-step values, after every iteration of the
\* extraction loop and in every returned result.
C3_TotalsAreSums ==
  /\ pc = "extract" => TotalsMatch(sequence, OptimizationResult)
  /\ \A h \in Completed : TotalsMatch(h.result.sequence, h.result)

\* a run has passed the second iteration of the loop with a late step behind it
C3_Witness ==
  /\ pc = "extract"
  /\ Len(sequence) >= 2
  /\ totalDelayCost > 0
  /\ totalDistanceCost > 0
  /\ Len(remainingIds) > 0

\* C4: two calls with identical requests and parameters return the same
\* sequence, per-step values, totals and statistics, whatever calls were made
\* before or between them.
C4_Deterministic ==
  \A i, j \in 1..Len(history) :
    (history[i].orders = history[j].orders /\ history[i].params = history[j].params)
      => history[i].result = history[j].result

\* three calls: the first and the third on one input, another input between
C4_Witness ==
  /\ Len(history) = 3
  /\ history[1].orders = history[3].orders
  /\ history[1].params = history[3].params
  /\ history[2].orders # history[1].orders
  /\ history[3].result.dpStatistics.totalStatesEvaluated > 0

\* the smallest of a non-empty sequence of finite numbers, and the first index
\* that holds it
MinOf(totals) ==
  CHOOSE m \in SeqToSet(totals) : \A k \in 1..Len(totals) : m <= totals[k]

FirstIndexOf(totals, m) ==
  CHOOSE k \in 1..Len(totals) :
    totals[k] = m /\ \A j \in 1..(k - 1) : totals[j] # m

AllFinite(totals) == \A k \in 1..Len(totals) : IsFinite(totals[k])

\* the frame on top of the stack has gone through all its candidates
LoopDone ==
  /\ pc = "search" /\ stack # <<>>
  /\ Top.stage = "loop"
  /\ Top.i > Len(Top.remainingOrderIds)

\* the evaluation on top of the stack stores its result in this step
StoreStep == LoopDone /\ memo' # memo

\* the evaluation on top of the stack takes a returned candidate in this step
CombineStep ==
  /\ pc = "search" /\ stack # <<>> /\ Top.stage = "wait"
  /\ Len(stack') = Len(stack)

\* C5: for valid parameters the candidates of an evaluated state have finite
\* totals, and the memo entry stored for the state holds the minimal total and
\* the id of the first candidate, in the order of the remaining set (the order
\* of the input list), that attains it; whatever the parameters, the best
\* candidate so far is replaced only by a candidate whose total is strictly
\* smaller.
C5_FirstTiedWins ==
  /\ [][StoreStep =>
          LET f == Top
              m == MinOf(f.candidateTotals)
              e == MemoGet(memo', f.stateKey)
          IN ValidParameters(params) =>
               /\ AllFinite(f.candidateTotals)
               /\ e.cost = m
               /\ e.nextOrderId =
                    f.remainingOrderIds[FirstIndexOf(f.candidateTotals, m)]]_vars
  /\ [][CombineStep =>
          LET f == Top
              g == stack'[Len(stack)]
              total == g.candidateTotals[Len(g.candidateTotals)]
          IN (g.bestNextOrder # f.bestNextOrder \/ g.minCost # f.minCost)
               => LessThan(total, f.minCost)]_vars

\* an evaluation is about to store its result after three candidates, the
\* first and the last of them tied at the minimum, or the last two
C5_Witness ==
  /\ LoopDone
  /\ Len(Top.candidateTotals) = 3
  /\ ValidParameters(params)
  /\ LET m == MinOf(Top.candidateTotals)
     IN /\ Top.candidateTotals[3] = m
        /\ Cardinality({k \in 1..3 : Top.candidateTotals[k] = m}) = 2

C7_EmptyInput ==
  /\ (pc \in {"search", "extract"} /\ orders = <<>>) =>
       /\ statesEvaluated = 0 /\ memoHits = 0 /\ maxDepth = 0
       /\ memo = <<>>
       /\ recursionTrace = <<>>
  /\ \A h \in Completed :
       h.orders = <<>> =>
         /\ h.result.sequence = <<>>
         /\ h.result.totalDistance = 0
         /\ h.result.totalTravelTime = 0
         /\ h.result.totalDelayPenalty = 0
         /\ h.result.totalCost = 0
         /\ h.result.dpStatistics.totalStatesEvaluated = 0
         /\ h.result.dpStatistics.totalMemoHits = 0
         /\ h.result.dpStatistics.uniqueStatesStored = 0
         /\ h.result.dpStatistics.maxRecursionDepth = 0

\* a call with no request has returned
C7_Witness ==
  \E h \in Completed : h.orders = <<>> /\ h.result.sequence = <<>>

\* an empty request list, a speed <= 0 or a negative weight
RejectedInput(os, p) ==
  \/ os = <<>>
  \/ p.averageSpeed <= 0
  \/ p.alpha < 0 \/ p.beta < 0 \/ p.gamma < 0

\* C8: a call with no request, a speed <= 0 or a negative weight is rejected:
\* the search is never under way with such input, and no such call returns a
\* result.
C8_FailFast ==
  /\ pc \in {"search", "extract"} => ~RejectedInput(orders, params)
  /\ \A h \in Completed : ~RejectedInput(h.orders, h.params)

\* C9: when the extraction loop finds no entry, or an entry without a chosen
\* id, with requests remaining, the call does not return a result: no returned
\* result comes from a loop that was left early.
C9_FaultOnFailedLookup ==
  [][(/\ pc = "extract"
      /\ Len(remainingIds) > 0
      /\ LookupFails(memo, create_state_key(currentLoc, remainingIds, currentTime)))
       => (history' = history /\ result' = result)]_vars

\* the number of steps of a sequence that are on time
OnTimeSteps(seq) == Cardinality({k \in 1..Len(seq) : seq[k].delayPenalty = 0})

\* every order of the list, delivered in list order from loc at clock t, is
\* on time
RECURSIVE RouteOnTime(_, _, _, _)
RouteOnTime(loc, t, os, p) ==
  IF os = <<>> THEN TRUE
  ELSE LET tr == Transition(loc, t, Head(os), p)
       IN /\ tr.delayPenalty = 0
          /\ RouteOnTime(Head(os).latitude, tr.arrivalTimeMs, Tail(os), p)

OnTimeFeasible(os, p) ==
  \E perm \in Orderings(Len(os)) :
    RouteOnTime(DEPOT_LOCATION, StartingTime(os),
                [i \in 1..Len(os) |-> os[perm[i]]], p)

\* calls i and j had the same requests, speed, service time, alpha and beta,
\* and call j a larger gamma
GammaRaised(i, j) ==
  /\ history[i].orders = history[j].orders
  /\ history[i].orders # <<>>
  /\ ValidatedInput(history[i].orders, history[i].params)
  /\ ValidatedInput(history[j].orders, history[j].params)
  /\ WithGamma(history[i].params, 0) = WithGamma(history[j].params, 0)
  /\ history[i].params.gamma < history[j].params.gamma
  /\ OnTimeFeasible(history[i].orders, history[i].params)
  /\ Len(history[i].result.sequence) = Len(history[i].orders)
  /\ Len(history[j].result.sequence) = Len(history[j].orders)

\* C10: for the same requests, speed, service time, alpha and beta, when some
\* ordering delivers every request on time, the schedule returned with the
\* larger gamma has at least the fraction of on-time steps (delayPenalty = 0)
\* of the schedule returned with the smaller gamma.
C10_OnTimeFraction ==
  \A i, j \in 1..Len(history) :
    GammaRaised(i, j) =>
      OnTimeSteps(history[j].result.sequence) * Len(history[i].result.sequence)
        >= OnTimeSteps(history[i].result.sequence) * Len(history[j].result.sequence)

\* two order lists that differ in the due times at most
SameButDue(os1, os2) ==
  /\ Len(os1) = Len(os2)
  /\ \A k \in 1..Len(os1) :
       /\ os1[k].order_id = os2[k].order_id
       /\ os1[k].latitude = os2[k].latitude
       /\ os1[k].order_time = os2[k].order_time

\* the ids of a sequence of steps, in delivery order
DeliveryOrder(seq) == [k \in 1..Len(seq) |-> seq[k].order.order_id]

\* C11: with gamma = 0 two calls that differ only in the due times return the
\* same delivery order and the same totalCost; with gamma = 0 the delay
\* contribution is 0, with alpha = 0 the distance contribution is 0 and with
\* beta = 0 the time contribution is 0.
C11_ZeroWeightInert ==
  /\ \A i, j \in 1..Len(history) :
       (/\ SameButDue(history[i].orders, history[j].orders)
        /\ history[i].params = history[j].params
        /\ history[i].params.gamma = 0)
         => /\ DeliveryOrder(history[i].result.sequence)
                 = DeliveryOrder(history[j].result.sequence)
            /\ history[i].result.totalCost = history[j].result.totalCost
  /\ \A h \in Completed :
       /\ h.params.gamma = 0 => h.result.costContributions.delayContribution = 0
       /\ h.params.alpha = 0 => h.result.costContributions.distanceContribution = 0
       /\ h.params.beta = 0 => h.result.costContributions.timeContribution = 0

\* two calls with gamma 0 on three requests whose due times differ: the first
\* schedule is late, the second is late by another amount
C11_Witness ==
  /\ Len(history) = 2
  /\ SameButDue(history[1].orders, history[2].orders)
  /\ history[1].orders # history[2].orders
  /\ history[1].params = history[2].params
  /\ history[1].params.gamma = 0
  /\ Len(history[2].result.sequence) = 3
  /\ history[1].result.totalDelayPenalty > 0
  /\ history[2].result.totalDelayPenalty # history[1].result.totalDelayPenalty

\* C12: when the returned totalCost is 0, the three percentages of the cost
\* attribution are 0: in the trade-off text of the result, on the result page
\* and in the exported sheet.
C12_ZeroTotalPercentages ==
  \A h \in Completed :
    h.result.totalCost = 0 =>
      /\ h.result.explanation.tradeoffAnalysis.distancePct = 0
      /\ h.result.explanation.tradeoffAnalysis.timePct = 0
      /\ h.result.explanation.tradeoffAnalysis.delayPct = 0
      /\ ResultInterpretation(h.result)
           = [distancePct |-> 0, timePct |-> 0, delayPct |-> 0]
      /\ exportToExcel(h.result)
           = [distancePercent |-> 0, timePercent |-> 0, delayPercent |-> 0]

\* C13: the order list the page holds, which is the last list parseCSV
\* returned, has pairwise-distinct non-empty ids, latitudes within 90 degrees
\* of the equator and valid time stamps; a file with a row that breaks this is
\* rejected and leaves the list as it was.
C13_IngestionValidates == ValidOrderList(pageOrders)

\* the visits dp_recursive tried to capture so far: one per evaluation, one per
\* store and one per memo hit
CaptureAttempts == statesEvaluated + Len(memo) + memoHits

MinOfTwo(a, b) == IF a < b THEN a ELSE b

\* the statistics of the result just returned, against the memo and the trace
\* that the call left behind
StatisticsAreFirstEntries ==
  LET st == result.dpStatistics
      ex == st.memoizationExamples
  IN /\ Len(ex) = MinOfTwo(5, Len(memo))
     /\ \A k \in 1..Len(ex) :
          /\ ex[k].stateKey = memo[k].key
          /\ ex[k].optimalCost = memo[k].cost
          /\ ex[k].bestNextOrder = memo[k].nextOrderId
     /\ Len(st.recursionTrace) = MinOfTwo(30, Len(recursionTrace))
     /\ \A k \in 1..Len(st.recursionTrace) :
          st.recursionTrace[k] = recursionTrace[k]

\* the trace captured during a call only grows at its end, one entry at a time
TraceAppends ==
  pc = "search" /\ recursionTrace' # recursionTrace
    => /\ Len(recursionTrace') = Len(recursionTrace) + 1
       /\ SubSeq(recursionTrace', 1, Len(recursionTrace)) = recursionTrace

\* C14: a result holds min(5, stored entries) memoization examples, the first
\* entries of the memo in insertion order, and the first min(30, captured)
\* entries of the trace in capture order; the captured trace never holds more
\* than 50 entries and keeps what it captured.
C14_ExamplesAndTrace ==
  /\ [](Len(recursionTrace) <= 50)
  /\ [](pc = "idle" /\ result # NoResult => StatisticsAreFirstEntries)
  /\ [][TraceAppends]_vars

\* a call has returned that stored more than 5 entries and visited more states
\* than the trace holds
C14_Witness ==
  /\ pc = "idle" /\ result # NoResult
  /\ Len(memo) > 5
  /\ Len(result.dpStatistics.memoizationExamples) = 5
  /\ Len(recursionTrace) = 50
  /\ CaptureAttempts > 50
  /\ Len(result.dpStatistics.recursionTrace) = 30

\* the keys of the calls of dp_recursive whose candidates are being expanded,
\* outermost first
KeysBeingExpanded ==
  LET open == SelectSeq(stack, LAMBDA f : f.stage # "enter")
  IN [k \in 1..Len(open) |-> open[k].stateKey]

\* no two entries of a list are equal
Distinct(seq) == \A i, j \in 1..Len(seq) : i # j => seq[i] # seq[j]

\* every key was expanded once: the stored keys and the keys being expanded
\* are pairwise distinct, and the evaluations counted are as many
ExpandedOnce ==
  LET stored == [k \in 1..Len(memo) |-> memo[k].key]
  IN /\ Distinct(stored \o KeysBeingExpanded)
     /\ statesEvaluated = Len(memo) + Len(KeysBeingExpanded)

\* during a call the memo changes only by a new entry at its end
MemoAppends ==
  pc = "search" /\ memo' # memo
    => /\ Len(memo') = Len(memo) + 1
       /\ SubSeq(memo', 1, Len(memo)) = memo

\* C15: within one call no memo key is stored twice and a stored entry never
\* changes, and the candidates of a key are expanded at most once.
C15_StoredOnce ==
  /\ [](pc = "search" => ExpandedOnce)
  /\ [][MemoAppends]_vars

\* a key that is stored has been met again and answered from the memo, while
\* other keys are being expanded
C15_Witness ==
  /\ pc = "search"
  /\ memoHits > 0
  /\ Len(memo) > 2
  /\ Len(KeysBeingExpanded) > 1

\* a call of dp_recursive is at its memo check with a key the memo holds
AtHit ==
  /\ pc = "search" /\ stack # <<>> /\ Top.stage = "enter"
  /\ ~IsTerminal(Top.remainingOrderIds)
  /\ MemoHas(memo, create_state_key(Top.currentLocation, Top.remainingOrderIds,
                                    Top.currentTime))

\* a call of dp_recursive is at its memo check with a key the memo lacks
AtMiss ==
  /\ pc = "search" /\ stack # <<>> /\ Top.stage = "enter"
  /\ ~IsTerminal(Top.remainingOrderIds)
  /\ ~MemoHas(memo, create_state_key(Top.currentLocation, Top.remainingOrderIds,
                                     Top.currentTime))

\* the hit returns the entry stored under the key, starts no call and changes
\* the hit counter only
HitReturnsCached ==
  AtHit =>
    LET key == create_state_key(Top.currentLocation, Top.remainingOrderIds,
                                Top.currentTime)
    IN /\ \E i \in 1..Len(memo) :
            /\ memo[i].key = key
            /\ ret'.cost = memo[i].cost
            /\ ret'.nextOrderId = memo[i].nextOrderId
       /\ stack' = Pop
       /\ memoHits' = memoHits + 1
       /\ memo' = memo
       /\ statesEvaluated' = statesEvaluated

\* the miss counts one evaluation and starts the loop over all candidates
MissEvaluates ==
  AtMiss =>
    /\ statesEvaluated' = statesEvaluated + 1
    /\ memoHits' = memoHits /\ memo' = memo
    /\ Len(stack') = Len(stack)
    /\ stack'[Len(stack)].stage = "loop" /\ stack'[Len(stack)].i = 1
    /\ stack'[Len(stack)].candidateTotals = <<>>

\* a call is made for the candidate the loop is at, and for nothing else
OneCallPerCandidate ==
  pc = "search" /\ Len(stack') > Len(stack)
    => /\ Top.stage = "loop"
       /\ Len(stack') = Len(stack) + 1
       /\ Len(Top.candidateTotals) = Top.i - 1
       /\ stack'[Len(stack')].remainingOrderIds
            = SetDelete(Top.remainingOrderIds, Top.remainingOrderIds[Top.i])

\* an entry is stored by the call that has had one call return per candidate,
\* and it is one entry
StoresAfterAllCandidates ==
  pc = "search" /\ memo' # memo
    => /\ Top.stage = "loop"
       /\ Len(Top.candidateTotals) = Len(Top.remainingOrderIds)
       /\ Len(memo') = Len(memo) + 1
       /\ memo'[Len(memo')].key = Top.stateKey
       /\ stack' = Pop

\* C16: a memo hit returns the cached entry without a recursive call, adds one
\* to memoHits and leaves memo and statesEvaluated alone; a miss makes exactly
\* one recursive call per remaining request and then stores exactly one entry.
C16_HitAndMiss ==
  [][HitReturnsCached /\ MissEvaluates /\ OneCallPerCandidate
       /\ StoresAfterAllCandidates]_vars

\* after a memo hit, a call with several candidates has had all of them return
\* and is about to store
C16_Witness ==
  /\ pc = "search" /\ stack # <<>>
  /\ memoHits > 0
  /\ Top.stage = "loop"
  /\ Len(Top.remainingOrderIds) > 1
  /\ Len(Top.candidateTotals) = Len(Top.remainingOrderIds)

\* a call with nothing left to deliver returns cost 0 and no id, and touches
\* neither the memo nor the counters
TerminalReturnsZero ==
  pc = "search" /\ stack # <<>> /\ Top.stage = "enter"
      /\ Top.remainingOrderIds = <<>>
    => /\ ret' = [cost |-> 0, nextOrderId |-> Null]
       /\ stack' = Pop
       /\ memo' = memo
       /\ memoHits' = memoHits
       /\ statesEvaluated' = statesEvaluated

\* an entry is stored for a state with requests left, and for validated input
\* the id it holds is one of them
StoresAChosenMember ==
  pc = "search" /\ memo' # memo
    => /\ Top.remainingOrderIds # <<>>
       /\ ValidatedInput(orders, params)
            => /\ memo'[Len(memo')].nextOrderId # Null
               /\ memo'[Len(memo')].nextOrderId \in SeqToSet(Top.remainingOrderIds)

\* C17: no entry is stored for the empty remaining set; the terminal call
\* returns cost 0 and no id and changes neither memo, memoHits nor
\* statesEvaluated; for validated input every stored entry holds a non-null id
\* that is one of its state's remaining requests.
C17_TerminalAndChoice == [][TerminalReturnsZero /\ StoresAChosenMember]_vars

\* in a call on validated input, a terminal call has just returned to the call
\* that made it, and entries are stored
C17_Witness ==
  /\ pc = "search" /\ stack # <<>>
  /\ ValidatedInput(orders, params)
  /\ Top.stage = "wait"
  /\ Len(Top.remainingOrderIds) = 1
  /\ ret = [cost |-> 0, nextOrderId |-> Null]
  /\ Len(memo) > 0

\* the states a call on a list can key: a place of the list or the depot, a
\* non-empty set of its ids, a clock within a minute of its start
KeyStates(os) ==
  {[place |-> l, ids |-> SelectSeq(IdOrder, LAMBDA id : id \in R), clock |-> t] :
     l \in {DEPOT_LOCATION} \cup {os[k].latitude : k \in 1..Len(os)},
     R \in (SUBSET SeqToSet(AllOrderIds(os))) \ {{}},
     t \in {StartingTime(os), StartingTime(os) + 1, StartingTime(os) + 2}}

\* a call is at its root
AtRoot == pc = "search" /\ Len(stack) = 1 /\ Top.stage = "enter"

\* C18: two states of a call have the same key exactly when they have the same
\* set of remaining ids, the same position and the same rounded minute; in
\* particular no two states with different id sets share a key.
C18_KeyIdentifiesState ==
  AtRoot =>
    LET keyOf == [s \in KeyStates(orders) |->
                    create_state_key(s.place, s.ids, s.clock)]
    IN \A s1, s2 \in KeyStates(orders) :
         keyOf[s1] = keyOf[s2]
           <=> /\ s1.ids = s2.ids
               /\ s1.place = s2.place
               /\ MathRoundMinutes(s1.clock) = MathRoundMinutes(s2.clock)

\* a candidate of the search: the call made for it has one id less, the one
\* delivered, and a clock that is not earlier
SearchTransition ==
  pc = "search" /\ Len(stack') > Len(stack)
    => LET next == stack'[Len(stack')]
       IN /\ Len(next.remainingOrderIds) = Len(Top.remainingOrderIds) - 1
          /\ SeqToSet(next.remainingOrderIds)
               = SeqToSet(Top.remainingOrderIds) \ {Top.remainingOrderIds[Top.i]}
          /\ ~LessThan(next.currentTime, Top.currentTime)

\* a step of the extraction: the id delivered leaves the remaining set, which
\* gets smaller by one, and the clock is not earlier
ExtractionTransition ==
  pc = "extract" /\ Len(sequence') > Len(sequence)
    => LET delivered == sequence'[Len(sequence')].order.order_id
       IN /\ Len(remainingIds') = Len(remainingIds) - 1
          /\ SeqToSet(remainingIds') = SeqToSet(remainingIds) \ {delivered}
          /\ ~LessThan(currentTime', currentTime)

\* C19: every transition, in the search and in the extraction, removes exactly
\* the delivered id from the remaining set, which gets smaller by one, and
\* never moves the clock back, for every parameter record the page can pass.
C19_TransitionShrinksAndAdvances ==
  [][SearchTransition /\ ExtractionTransition]_vars

\* C20: for every non-empty list of requests with unique ids, the
\* maxRecursionDepth of the result is the number of requests.
C20_DepthIsRequestCount ==
  \A h \in Completed :
    Len(h.orders) > 0 /\ UniqueIds(h.orders)
      => h.result.dpStatistics.maxRecursionDepth = Len(h.orders)

\* a call on three or more requests with unique ids has returned, some of its
\* states answered from the memo
C20_Witness ==
  \E h \in Completed :
    /\ Len(h.orders) >= 3 /\ UniqueIds(h.orders)
    /\ h.result.dpStatistics.totalMemoHits > 0
    /\ h.result.dpStatistics.maxRecursionDepth = Len(h.orders)

\* a step of the extraction has been taken: one more decision and one more
\* delivery step are recorded
ExtractionStepTaken == pc = "extract" /\ Len(sequence') > Len(sequence)

\* the decision recorded for the step just taken is one entry, numbered like
\* its place, counting the requests that remained before the step, and its
\* reason follows the table
DecisionFollowsTable ==
  ExtractionStepTaken =>
    LET d == keyDecisions'[Len(keyDecisions')]
        delay == sequence'[Len(sequence')].delayPenalty
        others == Len(remainingIds) - 1
    IN /\ Len(keyDecisions') = Len(keyDecisions) + 1
       /\ Len(keyDecisions') = Len(sequence')
       /\ d.step = Len(keyDecisions')
       /\ d.orderId = sequence'[Len(sequence')].order.order_id
       /\ d.alternativesConsidered = Len(remainingIds)
       /\ d.reason \in {"on_time", "late", "only_remaining", "generic"}
       /\ (delay = 0 /\ others > 0) => d.reason = "on_time"
       /\ (IsFinite(delay) /\ delay > 0) \/ delay = Infinity => d.reason = "late"
       /\ (delay = 0 /\ others = 0) => d.reason = "only_remaining"
       /\ (IsNaN(delay) /\ others = 0) => d.reason = "only_remaining"
       /\ (IsNaN(delay) /\ others > 0) => d.reason = "generic"

\* C21: every extracted step gets one rationale: on time with another request
\* remaining gives the on-time reason, else a delay above 0 the late reason
\* (also for the only remaining request), else no other request remaining the
\* only-remaining reason, else the generic one; alternativesConsidered is the
\* number of requests remaining before the step and the steps are numbered
\* 1, 2, ... in sequence order.
C21_DecisionTable == [][DecisionFollowsTable]_vars

\* a call has returned whose first step was on time with others remaining and
\* whose last step was late as the only remaining request
C21_Witness ==
  \E h \in Completed :
    LET kd == h.result.explanation.keyDecisions
    IN /\ Len(kd) >= 2
       /\ kd[1].reason = "on_time"
       /\ kd[Len(kd)].reason = "late"
       /\ kd[Len(kd)].alternativesConsidered = 1

\* the step appended by the iteration just taken chains on the step before it,
\* and is what the search computes for the same position, clock and request
StepChainsAndAgrees ==
  ExtractionStepTaken =>
    LET st == sequence'[Len(sequence')]
        before == IF sequence = <<>> THEN StartingTime(orders)
                  ELSE sequence[Len(sequence)].arrivalTime
        service == IF "serviceTime" \in DOMAIN params
                   THEN params.serviceTime * TicksPerMinute
                   ELSE 5 * TicksPerMinute
        late == st.arrivalTime - st.order.due_time
        search == Transition(currentLoc, currentTime, st.order, params)
    IN /\ st.arrivalTime = before + st.travelTime + service
       /\ st.delayPenalty = IF late > 0 THEN late ELSE 0
       /\ search.arrivalTimeMs = st.arrivalTime
       /\ search.delayPenalty = st.delayPenalty
       /\ search.costBreakdown.totalCost = st.stepCost
       /\ totalTravelTime' = totalTravelTime + st.travelTime

\* C22: each step's arrivalTime is the arrivalTime of the step before it (the
\* earliest order time for step 1) plus its travel time plus the service time
\* (5 minutes when the parameter is absent); its delayPenalty is
\* max(0, arrivalTime - due time); the search computes the same arrival,
\* lateness and step cost for that position, clock and request; and
\* totalTravelTime grows by the travel time alone.
C22_ArrivalChain == [][StepChainsAndAgrees]_vars

\* a call without a serviceTime parameter has returned two steps or more, the
\* last of them late, after a move that took time
C22_Witness ==
  \E h \in Completed :
    LET sq == h.result.sequence
    IN /\ "serviceTime" \notin DOMAIN h.params
       /\ Len(sq) >= 2
       /\ sq[Len(sq)].travelTime > 0
       /\ sq[Len(sq)].delayPenalty > 0
       /\ h.result.totalTravelTime > 0

\* the lines of a file that are not blank
NonBlank(rows) == SelectSeq(rows, LAMBDA r : r # <<>>)

\* what the parser is said to refuse: a content of fewer than two lines (no
\* line follows the header), a header without a required column, a line with
\* fewer cells than the header, a coordinate that parseFloat makes no number
\* of, a time that is no date
RowRefused(row) ==
  LET values == parseCSVLine(row)
  IN \/ Len(values) < 5
     \/ IsNaN(parseFloat(values[2])) \/ IsNaN(parseFloat(values[3]))
     \/ IsNaN(parseDateTime(values[4])) \/ IsNaN(parseDateTime(values[5]))

FileRefused(file) ==
  \/ NonBlank(file.rows) = <<>>
  \/ ~file.header
  \/ \E i \in 1..Len(file.rows) : file.rows[i] # <<>> /\ RowRefused(file.rows[i])

UploadHandled == NextEventIs("upload") /\ events' = Tail(events)

\* the page shows the message when parseCSV threw and the orders when it
\* returned
UploadThrowsOrReturnsRows ==
  UploadHandled =>
    LET file == Head(events).file
        kept == NonBlank(file.rows)
    IN IF FileRefused(file)
         THEN pageError' # Null /\ pageOrders' = pageOrders
       ELSE /\ pageError' = Null
            /\ pageOrders' # <<>>
            /\ Len(pageOrders') = Len(kept)
            /\ \A i \in 1..Len(kept) :
                 LET values == parseCSVLine(kept[i])
                 IN /\ pageOrders'[i].order_id = values[1]
                    /\ pageOrders'[i].latitude = parseFloat(values[2])
                    /\ pageOrders'[i].order_time = parseDateTime(values[4])
                    /\ pageOrders'[i].due_time = parseDateTime(values[5])

\* C23: parseCSV throws or returns a list that is not empty: it throws for a
\* content of fewer than two lines, a header that lacks a required column, a
\* line with fewer cells than the header, a coordinate that is not a number, a
\* time that is no date, and when no line is left after the blank ones; a list
\* it returns has one order for each line that is not blank, in the order of
\* the file
C23_ThrowsOrReturnsRows == [][UploadThrowsOrReturnsRows]_vars

\* a file with a request was loaded, and a file with a short line was refused
\* after it
C23_Witness ==
  /\ Len(pageOrders) = 1
  /\ pageOrders[1].order_id = "A"
  /\ pageError = "insufficient columns"
  /\ fileName = "good.csv"

\* the cost-to-go the memo holds for a state: 0 for a state with nothing left,
\* and nothing at all for a key that was never stored
HasCostToGo(loc, remaining, t) ==
  remaining = <<>> \/ MemoHas(memo, create_state_key(loc, remaining, t))

CostToGo(loc, remaining, t) ==
  IF remaining = <<>> THEN 0
  ELSE MemoGet(memo, create_state_key(loc, remaining, t)).cost

\* the step just taken splits the cached cost of the state it left into its
\* own cost and the cached cost of the state it reached
StepSplitsCachedCost ==
  ExtractionStepTaken /\ ValidatedInput(orders, params) =>
    /\ HasCostToGo(currentLoc', remainingIds', currentTime')
    /\ CostToGo(currentLoc, remainingIds, currentTime)
         = sequence'[Len(sequence')].stepCost
             + CostToGo(currentLoc', remainingIds', currentTime')

SolveReturns == pc = "extract" /\ pc' = "idle"

\* the total returned is the cached cost of the state the search began in
TotalIsCachedRootCost ==
  SolveReturns /\ ValidatedInput(orders, params) =>
    /\ HasCostToGo(DEPOT_LOCATION, AllOrderIds(orders), StartingTime(orders))
    /\ result'.totalCost
         = CostToGo(DEPOT_LOCATION, AllOrderIds(orders), StartingTime(orders))

\* C24: for every validated input the totalCost returned is the cost-to-go the
\* memo holds for the initial state, and at every extraction step the cached
\* cost-to-go of the current state is the recomputed step cost plus the cached
\* cost-to-go of the next state (0 when that state is terminal)
C24_CostToGoConsistent == [][StepSplitsCachedCost /\ TotalIsCachedRootCost]_vars

\* the deferred run of the page hands its result to setResult (Index.tsx lines
\* 59-62); a call that the page did not start leaves isOptimizing false
DeferredRunReturns == SolveReturns /\ isOptimizing

\* the result the deferred run sets was computed from the orders now loaded
ResultOfLoadedOrders == DeferredRunReturns => orders = pageOrders

\* a result does not outlive the orders it was computed from
ResultGoesWithOrders ==
  pageOrders' # pageOrders => result' = NoResult

\* C25: whenever the page's result is not null it was computed by dp_solve
\* from the orders that are loaded now: no interleaving of Optimize, Clear and
\* a file upload with the deferred run leaves a result set after its orders
\* were cleared or replaced
C25_ResultMatchesOrders == [][ResultOfLoadedOrders /\ ResultGoesWithOrders]_vars

\* a call of dp_recursive made by dp_recursive has fewer ids left than its
\* caller
RecursiveCallShrinks ==
  pc = "search" /\ Len(stack') > Len(stack) /\ stack # <<>>
    => Len(stack'[Len(stack')].remainingOrderIds) < Len(Top.remainingOrderIds)

\* an iteration of the extraction loop that does not leave the loop takes one
\* id out of the remaining set
IterationRemovesOne ==
  ExtractionStepTaken => Len(remainingIds') = Len(remainingIds) - 1

\* the loop has run once for each step in the sequence
AtMostOneIterationPerOrder ==
  pc' = "extract" => Len(sequence') <= Len(orders')

\* C28: dp_solve terminates on every finite list: each recursive call has a
\* strictly smaller remaining set, and the extraction loop runs at most n
\* times for n requests, each time removing one id or leaving the loop
C28_Terminates ==
  [][RecursiveCallShrinks /\ IterationRemovesOne /\ AtMostOneIterationPerOrder]_vars

\* the Optimize button was clicked and handleOptimize ran
OptimizeHandled == NextEventIs("optimize") /\ events' = Tail(events)

\* with an order loaded the click starts one run and sets isOptimizing; with
\* none it starts nothing
OptimizeStartsRun ==
  OptimizeHandled =>
    IF pageOrders # <<>>
      THEN isOptimizing' /\ Len(pending') = Len(pending) + 1
    ELSE ~isOptimizing' /\ pending' = pending

\* the end of the deferred run sets the result or the error, never both, and
\* isOptimizing is false after it
RunSetsResultOrError ==
  DeferredRunReturns =>
    /\ ~isOptimizing'
    /\ (result' # NoResult /\ pageError' = pageError)
         # (result' = result /\ pageError' # Null /\ pageError' # pageError)

\* the deferred run comes to its end: no iteration of its extraction loop
\* leaves everything the loop reads as it was (the memo does not change
\* during the extraction), for such an iteration repeats without end
RunComesToItsEnd ==
  isOptimizing /\ ExtractionStepTaken =>
    <<currentLoc', currentTime', remainingIds'>> # <<currentLoc, currentTime, remainingIds>>

\* C26: every Optimize taken with at least one order loaded sets isOptimizing,
\* and the deferred run in the end sets it back to false, having set exactly
\* one of result and error; an Optimize with no order loaded starts no run and
\* leaves isOptimizing false
C26_OptimizeRunsToEnd ==
  [][OptimizeStartsRun /\ RunSetsResultOrError /\ RunComesToItsEnd]_vars

\* a file was refused: orders and file name stay, the message is shown, no
\* result is shown; a file was accepted: its orders and name are loaded, no
\* message and no result is shown
UploadFrame ==
  UploadHandled =>
    LET parsed == parseCSV(Head(events).file)
    IN IF "orders" \notin DOMAIN parsed
         THEN /\ pageOrders' = pageOrders
              /\ fileName' = fileName
              /\ pageError' = parsed.error
              /\ result' = NoResult
       ELSE /\ pageOrders' = parsed.orders
            /\ fileName' = Head(events).name
            /\ pageError' = Null
            /\ result' = NoResult

\* C27: when parseCSV throws during an upload, handleFileContent leaves the
\* orders and the file name loaded before unchanged, sets error to the message
\* and leaves result null; when parseCSV returns, orders and fileName are
\* replaced, and error and result are null
C27_UploadFrame == [][UploadFrame]_vars

\* good.csv was loaded and solved, then bad.csv was refused: the request and
\* the name of good.csv are still loaded, the message is shown, the result of
\* the run is gone
C27_Witness ==
  /\ history # <<>>
  /\ events = <<>>
  /\ result = NoResult
  /\ fileName = "good.csv"
  /\ Len(pageOrders) = 1
  /\ pageError = "insufficient columns"

\* entry j of the trace is a memo_store, and entry i is the evaluate entry of
\* the same state at the same depth, with only deeper entries between them
OpensStore(i, j) ==
  /\ i < j
  /\ recursionTrace[i].action = "evaluate"
  /\ recursionTrace[i].stateDescription = recursionTrace[j].stateDescription
  /\ recursionTrace[i].depth = recursionTrace[j].depth
  /\ \A k \in (i + 1)..(j - 1) : recursionTrace[k].depth > recursionTrace[j].depth

StoresFollowTheirEvaluate ==
  \A j \in 1..Len(recursionTrace) :
    recursionTrace[j].action = "memo_store"
      => \E i \in 1..Len(recursionTrace) : OpensStore(i, j)

\* the step that records a memo_hit finds the key of its state in the memo
HitIsOfStoredKey ==
  /\ pc = "search"
  /\ Len(recursionTrace') > Len(recursionTrace)
  /\ recursionTrace'[Len(recursionTrace')].action = "memo_hit"
  => \E i \in 1..Len(memo) :
       memo[i].key = create_state_key(Top.currentLocation, Top.remainingOrderIds,
                                      Top.currentTime)

\* C29: in the trace every memo_store entry comes after the evaluate entry of
\* the same state at the same depth, every entry between the two is deeper,
\* and a memo_hit is recorded only for a key that is stored already
C29_TraceIsNested == [][StoresFollowTheirEvaluate' /\ HitIsOfStoredKey]_vars

\* a trace with a memo_hit between an evaluate entry and its memo_store, two
\* levels below the root
C29_Witness ==
  \E i, h, j \in 1..Len(recursionTrace) :
    /\ OpensStore(i, j)
    /\ i < h /\ h < j
    /\ recursionTrace[h].action = "memo_hit"
    /\ recursionTrace[j].depth = 0
    /\ recursionTrace[h].depth = 2

\* a call of dp_recursive begins: its activation record is at its first line
CallBegins == pc = "search" /\ stack # <<>> /\ Top.stage = "enter"

\* the call that begins is counted once: as an evaluation, as a memo hit, or,
\* with nothing left to deliver, in neither counter; no other step of the
\* search counts anything
CallCountedOnce ==
  pc = "search" =>
    IF CallBegins /\ ~IsTerminal(Top.remainingOrderIds)
      THEN \/ statesEvaluated' = statesEvaluated + 1 /\ memoHits' = memoHits
           \/ statesEvaluated' = statesEvaluated /\ memoHits' = memoHits + 1
    ELSE statesEvaluated' = statesEvaluated /\ memoHits' = memoHits

\* calls begin in dp_solve, once, and in the candidate loop
CallsBeginInLoop ==
  pc' = "search" /\ Len(stack') > Len(stack) =>
    /\ stack'[Len(stack')].stage = "enter"
    /\ (pc = "idle" /\ Len(stack') = 1) \/ (pc = "search" /\ Top.stage = "loop")

\* the statistics returned count as many evaluations as entries stored
EvaluatedIsStored ==
  SolveReturns =>
    /\ result'.dpStatistics.totalStatesEvaluated = result'.dpStatistics.uniqueStatesStored
    /\ result'.dpStatistics.totalStatesEvaluated = statesEvaluated
    /\ result'.dpStatistics.uniqueStatesStored = Len(memo)
    /\ result'.dpStatistics.totalMemoHits = memoHits

\* C30: at the end of every solve totalStatesEvaluated equals
\* uniqueStatesStored, and the calls of dp_recursive are the evaluations, the
\* memo hits and the terminal calls: each call is exactly one of the three
C30_CountersPartitionCalls ==
  [][CallCountedOnce /\ CallsBeginInLoop /\ EvaluatedIsStored]_vars

\* a solve has returned statistics with evaluations and memo hits, after
\* terminal calls
C30_Witness ==
  \E i \in 1..Len(history) :
    /\ history[i].result.dpStatistics.totalStatesEvaluated > 3
    /\ history[i].result.dpStatistics.totalMemoHits > 0
    /\ history[i].result.dpStatistics.uniqueStatesStored
         = history[i].result.dpStatistics.totalStatesEvaluated
    /\ Len(history[i].result.sequence) = Len(history[i].orders)

====
